---- MODULE Spec2Model ----
(***************************************************************************)
(* A model of gotomarkdown: the line classifier (commentFinder), the tag   *)
(* extractors (extractMediaPath, replaceHypeTag), the snippet loader       *)
(* (getHTMLSnippet), the converter (convert) and the file pipeline         *)
(* (convertFile, copyFiles, main).                                         *)
(*                                                                         *)
(* A line of text is a sequence of tokens.  A token stands for a run of    *)
(* characters that the regular expressions of the program treat as a unit: *)
(* "sp" is one space, "tab" one tab, "//" "/*" "*/" the comment            *)
(* delimiters, "go:" the directive keyword, "![alt]" the head of an image  *)
(* tag, "HYPE[d]" the head of an animation tag, "(" ")" "dq" (a double     *)
(* quote) "bt" (a backtick) "/" single characters, ".html" ".htm" file     *)
(* extensions, and every other token a word without any of these           *)
(* characters.  "nl" is the newline the converter writes.  The regular     *)
(* expressions are modelled by what they match on such token sequences.    *)
(***************************************************************************)
EXTENDS Integers, Sequences, FiniteSets, TLC

\* ------------------------------------------------------------------ bounds
MaxLines == 3
MaxFiles == 2
MaxName == 5     \* the longest file name, in characters
MaxSnip == 4     \* the longest animation export file, in lines

\* ------------------------------------------------------------------ tokens
IsSpace(t) == t = "sp" \/ t = "tab"        \* \s of the patterns (within a line)
IsTrimCut(t) == t = "sp" \/ t = "tab"      \* the cutset " \t" of strings.Trim

\* number of leading white-space tokens of s: what ^\s* consumes
LeadWs(s) ==
  CHOOSE k \in 0..Len(s) :
    /\ \A i \in 1..k : IsSpace(s[i])
    /\ (k = Len(s) \/ ~IsSpace(s[k+1]))

\* strings.Trim(s, " \t")
Trim(s) ==
  IF \A i \in 1..Len(s) : IsTrimCut(s[i]) THEN <<>>
  ELSE LET a == CHOOSE i \in 1..Len(s) :
                  ~IsTrimCut(s[i]) /\ \A j \in 1..(i-1) : IsTrimCut(s[j])
           b == CHOOSE i \in 1..Len(s) :
                  ~IsTrimCut(s[i]) /\ \A j \in (i+1)..Len(s) : IsTrimCut(s[j])
       IN SubSeq(s, a, b)

\* ------------------------------------------------- the patterns of the program
\* length of the match of  ^\s*//\s?  at the start of line, 0 when none
CommentMatchLen(line) ==
  LET k == LeadWs(line) IN
  IF k < Len(line) /\ line[k+1] = "//"
  THEN IF k + 2 <= Len(line) /\ IsSpace(line[k+2]) THEN k + 2 ELSE k + 1
  ELSE 0

\* length of the match of  ^\s*/\*\s?  at the start of line, 0 when none
CommentStartMatchLen(line) ==
  LET k == LeadWs(line) IN
  IF k < Len(line) /\ line[k+1] = "/*"
  THEN IF k + 2 <= Len(line) /\ IsSpace(line[k+2]) THEN k + 2 ELSE k + 1
  ELSE 0

\* the positions i of a "*/" that  \*/\s*$  matches: only white space follows
CommentEndAt(line) ==
  { i \in 1..Len(line) :
      line[i] = "*/" /\ \A j \in (i+1)..Len(line) : IsSpace(line[j]) }

\* comment.FindString(line) != ""
MatchesComment(line) == CommentMatchLen(line) > 0
\* commentStart.FindString(line) != ""
MatchesCommentStart(line) == CommentStartMatchLen(line) > 0
\* commentEnd.FindString(line) != ""
MatchesCommentEnd(line) == CommentEndAt(line) # {}

\* directive.FindString(line) != "" :  ^//go:  with nothing before the //
isDirective(line) ==
  Len(line) >= 2 /\ line[1] = "//" /\ line[2] = "go:"

\* allCommentDelims.ReplaceAllString(line, ""): the leftmost match at the start
\* of the line is the // prefix, else the /* prefix; after it only the */ suffix
\* can match, from the space before the */ (if the prefix left it) to the end.
StripOpener(line) ==
  LET n == IF CommentMatchLen(line) > 0 THEN CommentMatchLen(line)
           ELSE CommentStartMatchLen(line)
  IN SubSeq(line, n + 1, Len(line))
StripDelims(line) ==
  LET n == IF CommentMatchLen(line) > 0 THEN CommentMatchLen(line)
           ELSE CommentStartMatchLen(line)
      ends == { i \in CommentEndAt(line) : i > n }
  IN IF ends = {} THEN SubSeq(line, n + 1, Len(line))
     ELSE LET i == CHOOSE e \in ends : TRUE
              s == IF i - 1 > n /\ IsSpace(line[i-1]) THEN i - 1 ELSE i
          IN SubSeq(line, n + 1, s - 1)

\* ------------------------------------------------------------ tag extractors
\* number of leading "sp" tokens of s: what the  " *"  of the tag patterns takes
LeadSp(s) ==
  CHOOSE k \in 0..Len(s) :
    /\ \A i \in 1..k : s[i] = "sp"
    /\ (k = Len(s) \/ s[k+1] # "sp")

\* The two tag patterns have one shape:
\*    [^backtick] HEAD \( " "* ( [^CLOSERS]+ ) " "* [CLOSERS]
\* A match at head position i needs a token before it that is no backtick, a
\* "(" after it, and a non-empty run r up to the first closer.  The group is
\* greedy: it is r without its leading spaces (one space if r is only spaces),
\* trailing spaces included.
TagMatchAt(line, head, closers, i) ==
  /\ i >= 2 /\ i + 1 <= Len(line)
  /\ line[i] = head /\ line[i-1] # "bt" /\ line[i+1] = "("
  /\ \E e \in (i+2)..Len(line) : line[e] \in closers
  /\ line[i+2] \notin closers

\* FindStringSubmatch: <<>> without a match, else <<whole match, group 1>>
TagSubmatch(line, head, closers) ==
  LET at == { i \in 1..Len(line) : TagMatchAt(line, head, closers, i) } IN
  IF at = {} THEN <<>>
  ELSE LET i == CHOOSE a \in at : \A b \in at : a <= b
           e == CHOOSE c \in (i+2)..Len(line) :
                  line[c] \in closers /\ \A d \in (i+2)..(c-1) : line[d] \notin closers
           r == SubSeq(line, i + 2, e - 1)
           k == LeadSp(r)
           g == IF k = Len(r) THEN <<"sp">> ELSE SubSeq(r, k + 1, Len(r))
       IN << SubSeq(line, i - 1, e), g >>

\* imageTag.FindStringSubmatch(line), imagePtrn
ImageSubmatch(line) == TagSubmatch(line, "![alt]", {"dq", ")"})
\* hypeTag.FindStringSubmatch(line), hypePtrn
HypeSubmatch(line) == TagSubmatch(line, "HYPE[d]", {")"})

\* extractMediaPath: the path of the image tag of the line, trimmed
ExtractUntrimmed(line) ==
  LET matches == ImageSubmatch(line) IN
  IF Len(matches) = 0 THEN [path |-> <<>>, err |-> FALSE]
  ELSE IF Len(matches) = 1 THEN [path |-> <<>>, err |-> TRUE]
  ELSE [path |-> matches[2], err |-> FALSE]
extractMediaPath(line) ==
  LET matches == ImageSubmatch(line) IN
  IF Len(matches) = 0 THEN [path |-> <<>>, err |-> FALSE]
  ELSE IF Len(matches) = 1 THEN [path |-> <<>>, err |-> TRUE]
  ELSE [path |-> Trim(matches[2]), err |-> FALSE]

\* ------------------------------------------------------------ snippet loader
StartMarker == "<!--copy-->"     \* "<!-- copy these lines to your document: -->"
EndMarker == "<!--endcopy-->"    \* "<!-- end copy -->"
NoFile == << <<"unreadable">> >>   \* a path ioutil.ReadFile cannot read

HasTok(line, t) == \E i \in 1..Len(line) : line[i] = t

\* strings.Trim(line, "\t\t"): tabs are cut from both ends
TrimTabs(s) ==
  IF \A i \in 1..Len(s) : s[i] = "tab" THEN <<>>
  ELSE LET a == CHOOSE i \in 1..Len(s) :
                  s[i] # "tab" /\ \A j \in 1..(i-1) : s[j] = "tab"
           b == CHOOSE i \in 1..Len(s) :
                  s[i] # "tab" /\ \A j \in (i+1)..Len(s) : s[j] = "tab"
       IN SubSeq(s, a, b)

\* strings.Replace(string(hypeHTML), "\r", "", -1), line by line ("cr" is a
\* carriage return)
DropCr(lines) ==
  [ i \in 1..Len(lines) |-> SelectSeq(lines[i], LAMBDA t : t # "cr") ]

\* the loop of getHTMLSnippet over the lines of the file
RECURSIVE ScanSnippet(_, _, _)
ScanSnippet(lines, inSnippet, acc) ==
  IF lines = <<>> THEN acc
  ELSE LET l == Head(lines) IN
       IF HasTok(l, StartMarker) THEN ScanSnippet(Tail(lines), TRUE, acc)
       ELSE IF HasTok(l, EndMarker) /\ inSnippet THEN acc
       ELSE IF HasTok(l, EndMarker) THEN ScanSnippet(Tail(lines), FALSE, acc)
       ELSE IF inSnippet
            THEN ScanSnippet(Tail(lines), TRUE, acc \o TrimTabs(l) \o <<"nl">>)
            ELSE ScanSnippet(Tail(lines), FALSE, acc)

\* getHTMLSnippet(path) on a file system fs (path -> lines of the file, or NoFile)
SnippetNoBlank(fs, path) ==
  IF path \notin DOMAIN fs \/ fs[path] = NoFile
  THEN [out |-> <<>>, err |-> TRUE]
  ELSE [out |-> ScanSnippet(DropCr(fs[path]), FALSE, <<>>), err |-> FALSE]
getHTMLSnippet(fs, path) ==
  IF path \notin DOMAIN fs \/ fs[path] = NoFile
  THEN [out |-> <<>>, err |-> TRUE]
  ELSE [out |-> ScanSnippet(DropCr(fs[path]), FALSE, <<>>) \o <<"nl">>,
        err |-> FALSE]

\* strings.Replace(path, ".html", ".hyperesources", -1)
ReplaceHtml(path) ==
  [ i \in 1..Len(path) |->
      IF path[i] = ".html" THEN ".hyperesources" ELSE path[i] ]

\* replaceHypeTag: the snippet of the animation tag of the line and the path of
\* its resources directory; the line itself and no path when there is no tag
HypeTagKeepsPath(fs, line) ==
  LET matches == HypeSubmatch(line) IN
  IF Len(matches) = 0 THEN [out |-> line, path |-> <<>>, err |-> FALSE]
  ELSE IF Len(matches) = 1 THEN [out |-> <<>>, path |-> <<>>, err |-> TRUE]
  ELSE LET snip == getHTMLSnippet(fs, matches[2]) IN
       [out |-> snip.out, path |-> matches[2], err |-> snip.err]
replaceHypeTag(fs, line) ==
  LET matches == HypeSubmatch(line) IN
  IF Len(matches) = 0 THEN [out |-> line, path |-> <<>>, err |-> FALSE]
  ELSE IF Len(matches) = 1 THEN [out |-> <<>>, path |-> <<>>, err |-> TRUE]
  ELSE LET snip == getHTMLSnippet(fs, matches[2]) IN
       [out |-> snip.out, path |-> ReplaceHtml(matches[2]), err |-> snip.err]

\* ------------------------------------------------------------ line classifier
\* the closure returned by commentFinder, applied to a line with its captured
\* flag commentSectionInProgress: the verdict and the flag afterwards
ClassifyEndFirst(flag, line) ==
  IF MatchesComment(line) THEN [is |-> TRUE, flag |-> flag]
  ELSE IF MatchesCommentEnd(line) THEN [is |-> TRUE, flag |-> FALSE]
  ELSE IF MatchesCommentStart(line) THEN [is |-> TRUE, flag |-> TRUE]
  ELSE [is |-> flag, flag |-> flag]
isInComment(flag, line) ==
  IF MatchesComment(line) THEN [is |-> TRUE, flag |-> flag]
  ELSE IF MatchesCommentStart(line) THEN [is |-> TRUE, flag |-> TRUE]
  ELSE IF MatchesCommentEnd(line) THEN [is |-> TRUE, flag |-> FALSE]
  ELSE [is |-> flag, flag |-> flag]

\* ------------------------------------------------------------------ converter
\* the fence texts of convert; "<fence>" stands for the three backticks of a
\* fence.  Newline, fence and go, newline:
OpenFence == <<"nl", "<fence>go", "nl">>
\* fence, two newlines:
CloseFence == <<"<fence>", "nl", "nl">>
\* newline, fence, newline:
LastFence == <<"nl", "<fence>", "nl">>

\* convert: "if lastLine == code" before a comment line
ClosesAlways(lastLine) == lastLine # "comment"
ClosesFence(lastLine) == lastLine = "code"

\* convert: "if lastLine == comment && len(line) > 0" before a code line
OpensOnEmpty(lastLine, line) == lastLine = "comment"
OpensFence(lastLine, line) == lastLine = "comment" /\ Len(line) > 0

\* convert: the closing fence after the loop
NoFinalFence(lastLine) == <<>>
FinalFence(lastLine) == IF lastLine = "code" THEN LastFence ELSE <<>>

\* the state of one run of convert: the text so far, the media set, lastLine,
\* and whether convert has returned an error
ConvFailed(c) == [c EXCEPT !.out = <<>>, !.media = {}, !.err = TRUE]

\* convert, the branch of a comment line (after isInComment has said so)
\* c1: the locals after the closing fence and lastLine = comment; img, hype:
\* what extractMediaPath and replaceHypeTag returned for the line
CommentTags(c1, line, img, hype) ==
  IF img.err THEN ConvFailed(c1)
  ELSE IF hype.err THEN ConvFailed(c1)
  ELSE IF hype.out # <<>> /\ hype.path # <<>>
       THEN [c1 EXCEPT !.out = c1.out \o hype.out,
                       !.media = (IF img.path # <<>> THEN c1.media \cup {img.path}
                                  ELSE c1.media) \cup {hype.path}]
       ELSE [c1 EXCEPT !.out = c1.out \o StripDelims(line) \o <<"nl">>,
                       !.media = IF img.path # <<>> THEN c1.media \cup {img.path}
                                 ELSE c1.media]
CommentInFence(fs, c, line) ==
  CommentTags([c EXCEPT !.lastLine = "comment"],
              line, extractMediaPath(line), replaceHypeTag(fs, line))
CommentStep(fs, c, line) ==
  CommentTags([c EXCEPT !.out = IF ClosesFence(c.lastLine)
                                THEN c.out \o CloseFence ELSE c.out,
                        !.lastLine = "comment"],
              line, extractMediaPath(line), replaceHypeTag(fs, line))

\* convert, the branch of a line that is not in a comment
CodeWithMedia(c, line) ==
  IF OpensFence(c.lastLine, line)
  THEN [c EXCEPT !.lastLine = "code", !.out = c.out \o OpenFence \o line \o <<"nl">>,
                 !.media = c.media \cup {extractMediaPath(line).path}]
  ELSE [c EXCEPT !.out = c.out \o line \o <<"nl">>,
                 !.media = c.media \cup {extractMediaPath(line).path}]
CodeStep(c, line) ==
  IF OpensFence(c.lastLine, line)
  THEN [c EXCEPT !.lastLine = "code", !.out = c.out \o OpenFence \o line \o <<"nl">>]
  ELSE [c EXCEPT !.out = c.out \o line \o <<"nl">>]

\* one iteration of the loop of convert; flag is the flag of isInComment
DirectiveAsComment(fs, c, flag, line) ==
  LET k == isInComment(flag, line) IN
  IF k.is THEN [c |-> CommentStep(fs, c, line), flag |-> k.flag, kind |-> "comment"]
  ELSE [c |-> CodeStep(c, line), flag |-> k.flag, kind |-> "code"]
LineStep(fs, c, flag, line) ==
  IF isDirective(line) THEN [c |-> c, flag |-> flag, kind |-> "directive"]
  ELSE LET k == isInComment(flag, line) IN
       IF k.is THEN [c |-> CommentStep(fs, c, line), flag |-> k.flag, kind |-> "comment"]
       ELSE [c |-> CodeStep(c, line), flag |-> k.flag, kind |-> "code"]

\* convert: the locals before the loop
ConvStart == [out |-> <<>>, media |-> {}, lastLine |-> "neither", err |-> FALSE]

\* the loop of convert over a whole sequence of lines, stopping at an error
RECURSIVE RunLines(_, _, _, _)
RunLines(fs, c, flag, lines) ==
  IF lines = <<>> \/ c.err THEN [c |-> c, flag |-> flag]
  ELSE LET r == LineStep(fs, c, flag, Head(lines)) IN
       RunLines(fs, r.c, r.flag, Tail(lines))

\* what the loop of convert takes each of the lines for
RECURSIVE RunKinds(_, _, _)
RunKinds(fs, flag, lines) ==
  IF lines = <<>> THEN <<>>
  ELSE LET r == LineStep(fs, ConvStart, flag, Head(lines)) IN
       <<r.kind>> \o RunKinds(fs, r.flag, Tail(lines))

\* --------------------------------------------------------------------- inputs
\* the lines an input file is made of
EmptyLine == <<>>
LineComment == <<"//", "sp", "w">>
DirectiveLine == <<"//", "go:", "w">>
BlockOpen == <<"/*", "sp", "a">>
BlockClose == <<"c", "sp", "*/">>
BlockOneLine == <<"/*", "sp", "x", "sp", "*/">>
ImgTitleLine == <<"//", "sp", "![alt]", "(", "pic.png", "sp", "dq", "t", "dq", ")">>
ImgNoPathLine == <<"//", "sp", "![alt]", "(", ")">>
HypeLine == <<"//", "sp", "HYPE[d]", "(", "anim", ".html", "sp", ")">>
\* a line of code with the text of an image tag in it, the path absolute
CodeLine == <<"w", "sp", "![alt]", "(", "/", "pic.png", ")">>

LineSet ==
  { EmptyLine, CodeLine, LineComment, DirectiveLine, BlockOpen, BlockClose,
    BlockOneLine, ImgTitleLine, ImgNoPathLine, HypeLine }

\* the animation export file a HYPE tag of the inputs names, and what it holds
HypePath == <<"anim", ".html", "sp">>
HypeFile ==
  << <<"h0">>, <<StartMarker>>, <<"tab", "h1", "tab">>, <<EndMarker>>, <<"h2">> >>
\* A file is as the run finds it when it first reads it, and stays so for the
\* run; until then it is Unread.
Unread == << <<"unread">> >>
FileContents == {NoFile, HypeFile}
\* the file systems that agree with files on every file read so far, the file
\* that the animation tag of line names being read now if convert takes the
\* line for a comment line (flag is the flag of isInComment)
ReadFor(files, flag, line) ==
  IF /\ ~isDirective(line) /\ isInComment(flag, line).is
     /\ ~extractMediaPath(line).err
     /\ Len(HypeSubmatch(line)) = 2 /\ HypeSubmatch(line)[2] \in DOMAIN files
     /\ files[HypeSubmatch(line)[2]] = Unread
  THEN { [files EXCEPT ![HypeSubmatch(line)[2]] = c] : c \in FileContents }
  ELSE {files}

\* The lines one iteration of convert is tried on.  HypeHtmLine names an
\* animation file with another extension, HypeDirLine one in a directory whose
\* name ends in .html, and CodeTagLine is a line of code with the text of an
\* image tag and of an animation tag in it.
HtmPath == <<"anim", ".htm">>
DirPath == <<"d", ".html", "/", "anim", ".html">>
HypeHtmLine == <<"//", "sp", "HYPE[d]", "(">> \o HtmPath \o <<")">>
HypeDirLine == <<"//", "sp", "HYPE[d]", "(">> \o DirPath \o <<")">>
CodeTagLine ==
  <<"w", "sp", "![alt]", "(", "pic.png", ")", "sp", "HYPE[d]", "(">>
    \o HypePath \o <<")">>
StepLines ==
  { EmptyLine, LineComment, ImgTitleLine, HypeLine, HypeHtmLine, HypeDirLine,
    CodeTagLine }
StepPaths == {HypePath, HtmPath, DirPath}

\* the lines an animation export file is made of, and the files: every text
\* of up to MaxSnip of these lines
SnipLineSet ==
  { <<"h1">>, <<"tab", "h2", "tab", "cr">>, <<StartMarker>>, <<"x", EndMarker>>,
    <<StartMarker, EndMarker>> }
SnipFiles == UNION { [1..n -> SnipLineSet] : n \in 1..MaxSnip }

\* the texts convert has been through before the iteration that is tried: all
\* but the last line of a file of MaxLines lines, leaving convert after code
\* without a comment, after a comment, in a code block, in a block comment
AllOf(l) == [i \in 1..(MaxLines - 1) |-> l]
PriorTexts ==
  { AllOf(EmptyLine), AllOf(LineComment), [AllOf(CodeLine) EXCEPT ![1] = LineComment],
    AllOf(BlockOpen) }

\* the name of an input file, given as its characters; main is run on files
\* named like this one
GoName == <<"a", ".", "g", "o">>
ArgNames == {GoName}

\* the file names convertFile is tried on: every name of up to MaxName
\* characters, each a letter, a dot or a slash
NameChars == {"a", ".", "/"}
FileNames == UNION { [1..n -> NameChars] : n \in 1..MaxName }

\* ------------------------------------------------------------------ file names
\* A file name is the sequence of its characters; "/" separates directories.
\* filepath.Base: the last element of the path, trailing slashes removed first
Base(name) ==
  IF name = <<>> THEN <<".">>
  ELSE IF \A i \in 1..Len(name) : name[i] = "/" THEN <<"/">>
  ELSE LET e == CHOOSE i \in 1..Len(name) :
                  name[i] # "/" /\ \A j \in (i+1)..Len(name) : name[j] = "/"
           b == CHOOSE i \in 1..e :
                  /\ \A j \in i..e : name[j] # "/"
                  /\ (i = 1 \/ name[i-1] = "/")
       IN SubSeq(name, b, e)

\* the number of characters convertFile cuts from the end of the name
StripLen == 3

\* name[:len(name)-3]; the slice panics when the name is shorter
FitsSlice(name) == Len(name) >= StripLen
StripShort(name) == SubSeq(name, 1, Len(name) - (StripLen - 1))
StripGo(name) == SubSeq(name, 1, Len(name) - StripLen)

\* filepath.Join(dir, base) for dir "out" or "." and base without a slash: an
\* empty element is ignored and the result is cleaned
JoinDir(dir, base) ==
  IF base = <<>> \/ base = <<".">> THEN <<dir>>
  ELSE IF base = <<".", ".">> THEN (IF dir = "." THEN base ELSE <<".">>)
  ELSE IF dir = "." THEN base
  ELSE <<dir, "/">> \o base

\* convertFile: outname
OutName(dir, file) == JoinDir(dir, StripGo(Base(file))) \o <<".", "m", "d">>

\* ---------------------------------------------------------------------- state
VARIABLES
  nFiles,      \* len(flag.Args())
  outDir,      \* *outDir
  nocopy,      \* *dontCopyPics
  fs,          \* the animation export files on disk, as far as read
  pc,          \* where main is
  fileIdx,     \* the index of the file main is at, 0 before the first
  inBlock,     \* commentSectionInProgress of the package-level isInComment
  startBlock,  \* inBlock when convert was entered for the current file
  in,          \* the lines convert has been through, current file
  kinds,       \* what each of them was taken for
  conv,        \* the locals of convert: out, media, lastLine, err
  written,     \* the files whose Markdown has been written
  toCopy,      \* copyFiles: the paths still to go through
  cpCalls,     \* copyFiles: the arguments cp was run with, current file
  failure,     \* the step that failed, "none" while none has
  filename,    \* convertFile: the argument, the name of the current file
  outname,     \* convertFile: the name of the file the Markdown is written to
  mkdirCalls   \* the files for which os.MkdirAll was called

vars == << nFiles, outDir, nocopy, fs, pc, fileIdx, inBlock, startBlock, in,
           kinds, conv, written, toCopy, cpCalls, failure, filename, outname,
           mkdirCalls >>

\* the locals of convertFile about names, and the calls of os.MkdirAll
names == << filename, outname >>

config == << nFiles, outDir, nocopy >>

Init ==
  /\ nFiles \in 0..MaxFiles
  /\ outDir \in {"out", "."}
  /\ nocopy \in BOOLEAN
  /\ fs = [p \in {HypePath} |-> Unread]
  /\ pc = "main"
  /\ fileIdx = 0
  /\ inBlock = FALSE
  /\ startBlock = FALSE
  /\ in = <<>>
  /\ kinds = <<>>
  /\ conv = ConvStart
  /\ written = {}
  /\ toCopy = {}
  /\ cpCalls = {}
  /\ failure = "none"
  /\ filename = <<>>
  /\ outname = <<>>
  /\ mkdirCalls = {}

\* ioutil.ReadFile can read a file only, not a path that ends in a slash
CanBeFile(name) == name # <<>> /\ name[Len(name)] # "/"

\* where main is after a run-time panic
Panic == "exit2"

\* log.Fatal: where main is after a step has failed
GoesOnAfterWrite(step) == IF step = "write" THEN "copy" ELSE "exit1"
GoesOnAfterConvert(step) == IF step = "convert" THEN "mkdir" ELSE "exit1"
Fatal(step) == "exit1"

\* main: "media != nil && path.Clean(*outDir) != ."  (media is the map convert
\* made; it is nil only when convertFile returned an error)
CopiesAnywhere(dir, flag) == TRUE
Copies(dir, flag) == dir # "."

\* main: the next file of flag.Args()
MainLoop ==
  /\ pc = "main" /\ fileIdx < nFiles
  /\ fileIdx' = fileIdx + 1
  /\ pc' = "read"
  /\ in' = <<>> /\ kinds' = <<>> /\ conv' = ConvStart
  /\ toCopy' = {} /\ cpCalls' = {}
  /\ \E n \in ArgNames : filename' = n
  /\ outname' = <<>>
  /\ UNCHANGED << config, mkdirCalls, fs, inBlock, startBlock, written, failure >>

\* main: after the last file, "Done."
MainDone ==
  /\ pc = "main" /\ fileIdx = nFiles
  /\ pc' = "exit0"
  /\ UNCHANGED << config, names, mkdirCalls, fs, fileIdx, inBlock,
                  startBlock, in, kinds, conv,
                  written, toCopy, cpCalls, failure >>

\* convertFile: ioutil.ReadFile, then the names are made and convert is entered
ReadFile ==
  /\ pc = "read"
  /\ \E ok \in (IF CanBeFile(filename) THEN BOOLEAN ELSE {FALSE}) :
       IF ~ok THEN /\ pc' = Fatal("read")
                   /\ failure' = "read"
                   /\ UNCHANGED << startBlock, outname >>
       ELSE IF ~FitsSlice(Base(filename))
            THEN /\ pc' = Panic
                 /\ failure' = "name"
                 /\ UNCHANGED << startBlock, outname >>
            ELSE /\ pc' = "convert"
                 /\ outname' = OutName(outDir, filename)
                 /\ startBlock' = inBlock
                 /\ failure' = failure
  /\ UNCHANGED << config, filename, mkdirCalls, fs, fileIdx, inBlock, in, kinds,
                  conv, written, toCopy, cpCalls >>

\* convert: one iteration of the loop, on the next line of the file
ConvertLine(line) ==
  /\ pc = "convert" /\ Len(in) < MaxLines
  /\ \E files \in ReadFor(fs, inBlock, line) :
     \E r \in {LineStep(files, conv, inBlock, line)} :
       /\ fs' = files
       /\ conv' = r.c
       /\ inBlock' = r.flag
       /\ kinds' = Append(kinds, r.kind)
       /\ in' = Append(in, line)
       /\ pc' = IF r.c.err THEN Fatal("convert") ELSE "convert"
       /\ failure' = IF r.c.err THEN "convert" ELSE failure
  /\ UNCHANGED << config, names, mkdirCalls, fileIdx, startBlock, written,
                  toCopy, cpCalls >>

ConvertDirective ==
  \E line \in LineSet : isDirective(line) /\ ConvertLine(line)
ConvertComment ==
  \E line \in LineSet :
    ~isDirective(line) /\ isInComment(inBlock, line).is /\ ConvertLine(line)
ConvertCode ==
  \E line \in LineSet :
    ~isDirective(line) /\ ~isInComment(inBlock, line).is /\ ConvertLine(line)

\* convert: after the loop (strings.Split gives at least one line)
ConvertReturn ==
  /\ pc = "convert" /\ Len(in) >= 1
  /\ conv' = [conv EXCEPT !.out = conv.out \o FinalFence(conv.lastLine)]
  /\ pc' = "mkdir"
  /\ UNCHANGED << config, names, mkdirCalls, fs, fileIdx, inBlock,
                  startBlock, in, kinds, written,
                  toCopy, cpCalls, failure >>

\* convertFile: os.MkdirAll unless the output directory is "."
MkdirAll ==
  /\ pc = "mkdir"
  /\ \E ok \in BOOLEAN :
       IF outDir = "." \/ ok
       THEN pc' = "write" /\ failure' = failure
       ELSE pc' = Fatal("mkdir") /\ failure' = "mkdir"
  /\ mkdirCalls' = IF outDir = "." THEN mkdirCalls ELSE mkdirCalls \cup {fileIdx}
  /\ UNCHANGED << config, names, fs, fileIdx, inBlock, startBlock, in, kinds, conv,
                  written, toCopy, cpCalls >>

\* convertFile: ioutil.WriteFile, then the return to main, which is handed the
\* media set only; the other locals of convertFile and convert are gone
WriteFile ==
  /\ pc = "write"
  /\ \E ok \in BOOLEAN :
       IF ok
       THEN pc' = "copy" /\ written' = written \cup {fileIdx} /\ failure' = failure
       ELSE pc' = Fatal("write") /\ written' = written /\ failure' = "write"
  /\ in' = <<>> /\ kinds' = <<>>
  /\ conv' = [ConvStart EXCEPT !.media = conv.media]
  /\ UNCHANGED << config, names, mkdirCalls, fs, fileIdx, inBlock,
                  startBlock, toCopy, cpCalls >>

\* main: whether copyFiles is called
CopyCheck ==
  /\ pc = "copy"
  /\ IF Copies(outDir, nocopy)
     THEN pc' = "copying" /\ toCopy' = conv.media
     ELSE pc' = "main" /\ toCopy' = toCopy
  /\ UNCHANGED << config, names, mkdirCalls, fs, fileIdx, inBlock,
                  startBlock, in, kinds, conv,
                  written, cpCalls, failure >>

\* path.Join(dest, src) for dest "out" and src without "." or ".." elements:
\* one slash between the two
JoinDest(dest, src) ==
  IF src = <<>> THEN <<dest>>
  ELSE IF src[1] = "/" THEN <<dest>> \o src
  ELSE <<dest, "/">> \o src

\* copyFiles: the arguments of cp -R for the path src of the map
CpArgs(dest, src) == [src |-> Trim(src), dst |-> JoinDest(dest, src)]

\* copyFiles: cp -R on one path of the map, in the order the map gives them
CopyOne ==
  /\ pc = "copying" /\ toCopy # {}
  /\ \E src \in toCopy, ok \in BOOLEAN :
       /\ cpCalls' = cpCalls \cup {CpArgs(outDir, src)}
       /\ toCopy' = toCopy \ {src}
       /\ IF ok THEN pc' = "copying" /\ failure' = failure
          ELSE pc' = Fatal("copy") /\ failure' = "copy"
  /\ UNCHANGED << config, names, mkdirCalls, fs, fileIdx, inBlock,
                  startBlock, in, kinds, conv, written >>

\* copyFiles: return nil
CopyDone ==
  /\ pc = "copying" /\ toCopy = {}
  /\ pc' = "main"
  /\ UNCHANGED << config, names, mkdirCalls, fs, fileIdx, inBlock,
                  startBlock, in, kinds, conv,
                  written, toCopy, cpCalls, failure >>

Next ==
  \/ MainLoop \/ MainDone \/ ReadFile
  \/ ConvertDirective \/ ConvertComment \/ ConvertCode \/ ConvertReturn
  \/ MkdirAll \/ WriteFile \/ CopyCheck \/ CopyOne \/ CopyDone

Spec == Init /\ [][Next]_vars

\* convertFile on its own, up to the call of convert: main is at the one file
\* of the run, whose name is any of FileNames
InitName ==
  /\ nFiles = 1
  /\ outDir \in {"out", "."}
  /\ nocopy \in BOOLEAN
  /\ fs = [p \in {HypePath} |-> Unread]
  /\ pc = "read"
  /\ fileIdx = 1
  /\ inBlock = FALSE
  /\ startBlock = FALSE
  /\ in = <<>>
  /\ kinds = <<>>
  /\ conv = ConvStart
  /\ written = {}
  /\ toCopy = {}
  /\ cpCalls = {}
  /\ failure = "none"
  /\ filename \in FileNames
  /\ outname = <<>>
  /\ mkdirCalls = {}

NextName == ReadFile

SpecName == InitName /\ [][NextName]_vars

\* one iteration of the loop of convert on its own: convert has been through
\* one of PriorTexts and comes to the last line of the file, any of
\* StepLines; the animation files hold any of SnipFiles or cannot be read
InitStep ==
  /\ nFiles = 1
  /\ outDir = "out"
  /\ nocopy = FALSE
  /\ \E f \in SnipFiles \cup {NoFile} : fs = [p \in StepPaths |-> f]
  /\ pc = "convert"
  /\ fileIdx = 1
  /\ startBlock = FALSE
  /\ in \in PriorTexts
  /\ kinds = RunKinds(fs, FALSE, in)
  /\ conv = RunLines(fs, ConvStart, FALSE, in).c
  /\ inBlock = RunLines(fs, ConvStart, FALSE, in).flag
  /\ written = {}
  /\ toCopy = {}
  /\ cpCalls = {}
  /\ failure = "none"
  /\ filename = GoName
  /\ outname = OutName(outDir, GoName)
  /\ mkdirCalls = {}

NextStep == \E line \in StepLines : ConvertLine(line)

SpecStep == InitStep /\ [][NextStep]_vars

\* ----------------------------------------------------------------- vocabulary
Count(s, t) == Cardinality({ i \in 1..Len(s) : s[i] = t })
OpenCount(s) == Count(s, "<fence>go")
CloseCount(s) == Count(s, "<fence>")
\* the fences open after the first k tokens of s
FenceDepth(s, k) == OpenCount(SubSeq(s, 1, k)) - CloseCount(SubSeq(s, 1, k))
NoFence(s) == OpenCount(s) = 0 /\ CloseCount(s) = 0

\* convert is in its loop / has returned its result for the current file
InLoop == pc = "convert"
Returned == Len(in) >= 1 /\ pc # "convert" /\ failure # "convert"

AllKinds(k) == \A i \in 1..Len(kinds) : kinds[i] = k
\* the last step was an iteration of convert's loop on line, taken for kind k
Stepped(line, k) == in' = Append(in, line) /\ kinds' = Append(kinds, k)
\* the text the last step appended to the output
Emitted == SubSeq(conv'.out, Len(conv.out) + 1, Len(conv'.out))

\* the text of the lines, each followed by a newline
RECURSIVE Body(_)
Body(lines) ==
  IF lines = <<>> THEN <<>> ELSE Head(lines) \o <<"nl">> \o Body(Tail(lines))

\* --------------------------------------------------------------------- claims
\* C1: for an input without comment lines (every line taken for code) the
\* output is the input wrapped in exactly one fence pair: one opening fence
\* before the first line, one closing fence after the last.
C1_WrappedInOnePair ==
  (Returned /\ AllKinds("code")) =>
     /\ OpenCount(conv.out) = 1 /\ CloseCount(conv.out) = 1
     /\ conv.out = OpenFence \o Body(in) \o LastFence

\* C2: the fences convert emits alternate strictly, beginning with an opening
\* one: after every prefix of the output at most one fence is open and never
\* fewer than none; in the loop a fence is open exactly while lastLine is code;
\* when convert has returned, as many fences are closed as were opened.
C2_FencesBalanced ==
  (InLoop \/ Returned) =>
     /\ \A k \in 0..Len(conv.out) : FenceDepth(conv.out, k) \in {0, 1}
     /\ InLoop =>
          (FenceDepth(conv.out, Len(conv.out)) = 1 <=> conv.lastLine = "code")
     /\ Returned => OpenCount(conv.out) = CloseCount(conv.out)

C2_Witness ==
  /\ Returned /\ conv.lastLine = "code"
  /\ OpenCount(conv.out) = 1 /\ CloseCount(conv.out) = 1

\* C3: an empty line taken for code while lastLine is comment appends only its
\* newline and leaves lastLine comment; an opening fence is emitted only by a
\* non-empty code line that follows a comment; and as long as the lines were
\* only comment lines, directives and empty code lines, no fence is in the
\* output.
C3_EmptyLineStep ==
  (Stepped(EmptyLine, "code") /\ conv.lastLine = "comment") =>
     (conv'.out = conv.out \o <<"nl">> /\ conv'.lastLine = "comment")
C3_OpenOnlyOnCode ==
  (InLoop /\ OpenCount(conv'.out) > OpenCount(conv.out)) =>
     /\ conv.lastLine = "comment"
     /\ \E line \in LineSet : line # EmptyLine /\ Stepped(line, "code")
C3_NoFenceBetween ==
  ((InLoop \/ Returned)
     /\ \A i \in 1..Len(in) : kinds[i] = "code" => in[i] = EmptyLine)
  => NoFence(conv.out)
C3_EmptyLineDefers ==
  /\ []C3_NoFenceBetween
  /\ [][C3_EmptyLineStep /\ C3_OpenOnlyOnCode]_vars

C3_Witness ==
  /\ InLoop /\ Len(in) = 3 /\ in[2] = EmptyLine
  /\ kinds = <<"comment", "code", "comment">>
  /\ NoFence(conv.out) /\ conv.lastLine = "comment"

\* the input without its directive lines
NoDirectives(lines) == SelectSeq(lines, LAMBDA l : ~isDirective(l))

\* strings.Split(text, "\n") of the text whose lines are given: a text always
\* has at least one line, the text without any character the one empty line
SplitLines(lines) == IF lines = <<>> THEN <<EmptyLine>> ELSE lines

\* convert as a whole on the lines of a text, the classifier's flag being flag
\* at entry: the result and the flag afterwards
ConvertAll(files, flag, lines) ==
  LET r == RunLines(files, ConvStart, flag, lines) IN
  IF r.c.err THEN r
  ELSE [r EXCEPT !.c.out = r.c.out \o FinalFence(r.c.lastLine)]

\* the step on a directive line changes nothing of the conversion
C4_DirectiveStep ==
  (\E line \in LineSet : Stepped(line, "directive")) =>
     (conv' = conv /\ inBlock' = inBlock)

\* C4 as stated: the result of convert (text, media set, error, flag of the
\* classifier) is that of converting the input with every directive line
\* removed.
C4_SameAsRemoved ==
  (Returned \/ failure = "convert") =>
     LET r == ConvertAll(fs, startBlock, SplitLines(NoDirectives(in))) IN
     conv.out = r.c.out /\ conv.media = r.c.media /\ conv.err = r.c.err
       /\ inBlock = r.flag

\* C4 amended: a directive line adds nothing and changes nothing wherever it
\* occurs; the result of convert is that of converting the input with every
\* directive line removed when a line is left, and the empty text with the
\* empty media set when every line of the input is a directive.
C4_SameAsRemaining ==
  (Returned \/ failure = "convert") =>
     IF NoDirectives(in) = <<>>
     THEN conv.out = <<>> /\ conv.media = {} /\ ~conv.err /\ inBlock = startBlock
     ELSE LET r == ConvertAll(fs, startBlock, SplitLines(NoDirectives(in))) IN
          conv.out = r.c.out /\ conv.media = r.c.media /\ conv.err = r.c.err
            /\ inBlock = r.flag
C4_DirectiveIgnored == []C4_SameAsRemaining /\ [][C4_DirectiveStep]_vars

C4_Witness ==
  /\ Returned /\ inBlock
  /\ in = <<BlockOpen, DirectiveLine, CodeLine>>
  /\ kinds = <<"comment", "directive", "comment">>
  /\ conv.media # {}

\* C5: every conversion of a document starts with the flag of the classifier
\* false, so what a line is taken for depends only on the lines of its own file.
RECURSIVE FreshKinds(_, _)
FreshKinds(flag, lines) ==
  IF lines = <<>> THEN <<>>
  ELSE LET r == LineStep(fs, ConvStart, flag, Head(lines)) IN
       <<r.kind>> \o FreshKinds(r.flag, Tail(lines))
C5_FreshClassifier ==
  (InLoop \/ Returned) =>
     (startBlock = FALSE /\ kinds = FreshKinds(FALSE, in))

\* C6: with -nocopy set, cp is run on no media path of any input file.
C6_NocopySkipsCopy ==
  nocopy => cpCalls = {}

\* C7: main goes through the files in the order given, one after the other;
\* a step that fails ends the run at once with a non-zero exit, and nothing
\* happens after that; the run exits zero only when no step has failed and
\* every listed file has been written.
C7_State ==
  /\ fileIdx \in 0..nFiles
  /\ written \in {1..fileIdx, 1..(fileIdx - 1)}
  /\ failure # "none" <=> pc = "exit1"
  /\ pc = "exit0" => (fileIdx = nFiles /\ written = 1..nFiles)
C7_Step ==
  /\ fileIdx' \in {fileIdx, fileIdx + 1}
  /\ fileIdx' = fileIdx + 1 => (pc = "main" /\ written = 1..fileIdx)
  /\ pc \in {"exit0", "exit1"} => UNCHANGED vars
C7_FailFast == []C7_State /\ [][C7_Step]_vars

C7_Witness ==
  pc = "exit1" /\ failure = "write" /\ fileIdx = 1 /\ nFiles = 2 /\ written = {}

\* C8: when every line of the input is taken for a comment line, the output
\* holds no fence, neither an opening nor a closing one.
C8_NoFenceInComments ==
  ((InLoop \/ Returned) /\ AllKinds("comment")) => NoFence(conv.out)

C8_Witness ==
  /\ Returned /\ AllKinds("comment") /\ Len(in) = 3
  /\ in[1] = BlockOpen /\ in[2] = CodeLine /\ in[3] = BlockClose

\* C9 as stated: the step on the comment line with an image tag and a title
\* adds exactly the trimmed path to the media set, and the text it emits holds
\* no image-tag syntax.
PicPath == <<"pic.png">>
C9_TagRemovedStep ==
  Stepped(ImgTitleLine, "comment") =>
     /\ conv'.media = conv.media \cup {PicPath}
     /\ ~HasTok(Emitted, "![alt]")
C9_TagRemoved == [][C9_TagRemovedStep]_vars

\* C9 amended: the step adds exactly the trimmed path to the media set, and the
\* text it emits is the closing fence if a code block was open, then the line
\* without its comment delimiter, the image tag kept as it is, and a newline.
C9_TagKeptStep ==
  Stepped(ImgTitleLine, "comment") =>
     /\ conv'.media = conv.media \cup {PicPath}
     /\ Emitted = (IF conv.lastLine = "code" THEN CloseFence ELSE <<>>)
                  \o <<"![alt]", "(", "pic.png", "sp", "dq", "t", "dq", ")", "nl">>
C9_TagKept == [][C9_TagKeptStep]_vars

C9_Witness ==
  /\ InLoop /\ in = <<LineComment, CodeLine, ImgTitleLine>>
  /\ conv.media = {PicPath} /\ HasTok(conv.out, "![alt]")

\* C10: after a successful convert every element of the media set is a
\* relative path without leading or trailing white space and is not empty.
\* (The media set is a set: no path occurs in it twice.)
IsRelative(path) == path = <<>> \/ path[1] # "/"
C10_MediaPathsClean ==
  Returned =>
    \A path \in conv.media :
      path # <<>> /\ Trim(path) = path /\ IsRelative(path)

\* C11: when convert has come to a comment line whose image tag has no path,
\* the line ImgNoPathLine, extractMediaPath has failed and convert has returned
\* the error: no output text, no media set, and the run has ended on it.
C11_MalformedTagFails ==
  \A i \in 1..Len(in) :
    (in[i] = ImgNoPathLine /\ kinds[i] = "comment") =>
       /\ extractMediaPath(in[i]).err
       /\ conv.err /\ conv.out = <<>> /\ conv.media = {}
       /\ failure = "convert"

\* the name and the extension of a file name of the form name.ext: what is
\* before and what is after its last dot
LastDot(name) ==
  CHOOSE i \in 1..Len(name) :
    name[i] = "." /\ \A j \in (i+1)..Len(name) : name[j] # "."
HasNameExt(name) ==
  /\ \E i \in 1..Len(name) : name[i] = "."
  /\ LastDot(name) > 1 /\ LastDot(name) < Len(name)
NamePart(name) == SubSeq(name, 1, LastDot(name) - 1)
ExtPart(name) == SubSeq(name, LastDot(name) + 1, Len(name))
MdExt == <<".", "m", "d">>
\* convertFile has made the names of the file (and gone on to convert)
Named == pc = "convert" /\ in = <<>>

\* C12 as stated: for a file name of the form name.ext, whatever the length of
\* the extension, the Markdown goes to <outdir>/<name>.md.
C12_ExtensionReplaced ==
  (Named /\ HasNameExt(Base(filename))) =>
     outname = JoinDir(outDir, NamePart(Base(filename))) \o MdExt

\* C12 amended: the last three characters of the file name are replaced by
\* .md.  For name.ext with an extension of two characters (as in .go) the
\* Markdown goes to <outdir>/<name>.md; with an extension of one character the
\* last character of name is lost; with a longer extension the dot and all but
\* the last three characters of the extension stay in front of .md; and a file
\* name shorter than three characters makes convertFile panic.
C12_ThreeCharsReplaced ==
  /\ (Named /\ HasNameExt(Base(filename))) =>
       LET name == NamePart(Base(filename))
           ext == ExtPart(Base(filename))
           kept == IF Len(ext) = 2 THEN name
                   ELSE IF Len(ext) = 1 THEN SubSeq(name, 1, Len(name) - 1)
                   ELSE name \o <<".">> \o SubSeq(ext, 1, Len(ext) - 3)
       IN outname = JoinDir(outDir, kept) \o MdExt
  /\ pc = Panic <=> failure = "name"
  /\ failure = "name" => (Len(Base(filename)) < 3 /\ outname = <<>>)
  /\ Named => Len(Base(filename)) >= 3

C12_Witness ==
  /\ Named /\ filename = <<"/", "a", ".", "a", "a">> /\ outDir = "out"
  /\ outname = <<"out", "/", "a", ".", "m", "d">>

\* the line matches none of the three comment patterns
NoCommentPattern(line) ==
  ~MatchesComment(line) /\ ~MatchesCommentStart(line) /\ ~MatchesCommentEnd(line)

\* C13: the one-line block comment BlockOneLine, which matches the opener and
\* the closer pattern, is taken for a comment line and leaves the flag of the
\* classifier true; while the flag is true every line that is no directive and
\* matches none of the comment patterns is taken for a comment line and the
\* flag stays true; and the flag goes from true to false only on a line that
\* matches the closer pattern and neither the // nor the opener pattern.
C13_OneLineStep ==
  in' = Append(in, BlockOneLine) =>
     /\ MatchesCommentStart(BlockOneLine) /\ MatchesCommentEnd(BlockOneLine)
     /\ kinds' = Append(kinds, "comment")
     /\ inBlock'
C13_InsideStep ==
  \A line \in LineSet :
    (inBlock /\ in' = Append(in, line) /\ ~isDirective(line)
       /\ NoCommentPattern(line))
    => (kinds' = Append(kinds, "comment") /\ inBlock')
C13_CloserStep ==
  (inBlock /\ ~inBlock') =>
     \E line \in LineSet :
       /\ in' = Append(in, line) /\ ~isDirective(line)
       /\ MatchesCommentEnd(line)
       /\ ~MatchesComment(line) /\ ~MatchesCommentStart(line)
PlainLines ==
  { l \in LineSet : ~isDirective(l) /\ NoCommentPattern(l) /\ HypeSubmatch(l) = <<>> }
\* convert is in its loop on the three lines of the block comment BlockOpen, a
\* plain line, BlockClose, or on the first of them
InBlockText ==
  /\ InLoop /\ Len(in) \in 1..3 /\ in[1] = BlockOpen
  /\ Len(in) >= 2 => in[2] \in PlainLines
  /\ Len(in) >= 3 => in[3] = BlockClose
\* what convert has emitted for the i-th line of that text
BlockTextLine(i) ==
  IF i = 1 THEN <<"a">> ELSE IF i = 2 THEN in[2] ELSE <<"c">>

FenceBefore == IF conv.lastLine = "code" THEN CloseFence ELSE <<>>
\* the first line of the file that holds the start marker, 0 when none does
FirstStart(file) ==
  IF \E i \in 1..Len(file) : HasTok(file[i], StartMarker)
  THEN CHOOSE i \in 1..Len(file) :
         /\ HasTok(file[i], StartMarker)
         /\ \A j \in 1..(i-1) : ~HasTok(file[j], StartMarker)
  ELSE 0
\* the first of the lines after line s that satisfy Ends, one past the last
\* line of the file when none does
FirstAfter(file, s, Ends(_)) ==
  IF \E i \in (s+1)..Len(file) : Ends(file[i])
  THEN CHOOSE i \in (s+1)..Len(file) :
         Ends(file[i]) /\ \A j \in (s+1)..(i-1) : ~Ends(file[j])
  ELSE Len(file) + 1
HoldsEnd(l) == HasTok(l, EndMarker)
HoldsEndOnly(l) == HasTok(l, EndMarker) /\ ~HasTok(l, StartMarker)
\* the step was the iteration of convert on HypeLine, its file being readable
LoadedStep ==
  in' = Append(in, HypeLine) /\ kinds' = Append(kinds, "comment")
    /\ fs[HypePath] # NoFile

\* C15 as stated: for a file with a start marker and an end marker after it,
\* the snippet is exactly the lines strictly between the first line holding
\* the start marker and the first later line holding the end marker, each
\* followed by a newline, and one more newline.
C15_ExactLinesStep ==
  LET file == fs[HypePath]
      s == FirstStart(file)
      e == FirstAfter(file, s, HoldsEnd)
  IN (LoadedStep /\ s > 0 /\ e <= Len(file)) =>
        Emitted = FenceBefore \o Body(SubSeq(file, s + 1, e - 1)) \o <<"nl">>
C15_TrimmedLinesStep ==
  LET file == DropCr(fs[HypePath])
      s == FirstStart(file)
      e == FirstAfter(file, s, HoldsEndOnly)
      kept == SelectSeq(SubSeq(file, s + 1, e - 1),
                        LAMBDA l : ~HasTok(l, StartMarker))
  IN LoadedStep =>
       Emitted = FenceBefore
                   \o (IF s = 0 THEN <<>>
                       ELSE Body([i \in 1..Len(kept) |-> TrimTabs(kept[i])]))
                   \o <<"nl">>
TagPath(line) ==
  IF line \in {HypeLine, CodeTagLine} THEN HypePath
  ELSE IF line = HypeHtmLine THEN HtmPath
  ELSE IF line = HypeDirLine THEN DirPath
  ELSE <<>>
\* the paths of the image tags of a line of StepLines
ImagePaths(line) ==
  IF line \in {ImgTitleLine, CodeTagLine} THEN {PicPath} ELSE {}
\* the path with its file extension, the last one, replaced by .hyperesources
ExtReplaced(path) ==
  LET exts == { i \in 1..Len(path) : path[i] \in {".html", ".htm"} }
      last == CHOOSE i \in exts : \A j \in exts : j <= i
  IN [path EXCEPT ![last] = ".hyperesources"]
\* the path with every .html in it replaced by .hyperesources
HtmlReplaced(path) ==
  IF path = HypePath THEN <<"anim", ".hyperesources", "sp">>
  ELSE IF path = DirPath THEN <<"d", ".hyperesources", "/", "anim", ".hyperesources">>
  ELSE path

\* the iteration of convert on a comment line: with an animation tag whose
\* file loads, the text emitted is the snippet and the media set gains the
\* path Resources(path of the tag); without an animation tag the text emitted
\* is the line without its delimiters and a newline, and the media set gains
\* no such path.  (The closing fence of an open code block comes first, and
\* the path of an image tag of the line is added in both cases.)
HypeStep(Resources(_)) ==
  \A line \in StepLines :
    Stepped(line, "comment") =>
      IF TagPath(line) = <<>>
      THEN /\ Emitted = FenceBefore \o StripDelims(line) \o <<"nl">>
           /\ conv'.media = conv.media \cup ImagePaths(line)
      ELSE fs[TagPath(line)] # NoFile =>
           /\ Emitted = FenceBefore \o getHTMLSnippet(fs, TagPath(line)).out
           /\ conv'.media = conv.media \cup ImagePaths(line)
                               \cup {Resources(TagPath(line))}

C17_CodeStep ==
  \A line \in StepLines :
    Stepped(line, "code") =>
      /\ SubSeq(conv'.out, 1, Len(conv.out)) = conv.out
      /\ Emitted = (IF conv.lastLine = "comment" /\ line # EmptyLine
                    THEN OpenFence ELSE <<>>) \o line \o <<"nl">>
      /\ conv'.media = conv.media
      /\ fs' = fs /\ ~conv'.err /\ failure' = "none"
C17_CodeVerbatim == [][C17_CodeStep]_vars

C17_Witness ==
  /\ pc = "convert" /\ in = <<LineComment, LineComment, CodeTagLine>>
  /\ kinds = <<"comment", "comment", "code">>
  /\ fs[HypePath] = NoFile
  /\ conv.media = {}
  /\ conv.out = <<"w", "nl", "w", "nl">> \o OpenFence \o CodeTagLine \o <<"nl">>

\* main is back from the current file, its Markdown written and its media
\* copied as far as main copies them
FileDone == pc = "main" /\ fileIdx >= 1 /\ fileIdx \in written
\* the destination <outdir>/<path> of the copy of a media path
DestOf(path) ==
  IF path[1] = "/" THEN <<outDir>> \o path ELSE <<outDir, "/">> \o path
Dests(calls) == { c.dst : c \in calls }

\* C18 as stated: when the Markdown of a file has been written and -nocopy is
\* not set, cp has been run for every path of the media set of the file, with
\* destination <outdir>/<path>, whatever outdir is.
C18_EveryPathCopied ==
  (FileDone /\ ~nocopy) =>
     Dests(cpCalls) = { DestOf(path) : path \in conv.media }

\* C18 amended: that holds when outdir is not the current directory; when it
\* is, cp is not run at all.  cp is run only after the Markdown of the file
\* has been written, one path of the media set at a time and never twice for
\* a path, on the path without the spaces and tabs at its ends; a copy that
\* fails ends the run at once, so no further path is copied.
C18_CopyState ==
  /\ (FileDone /\ ~nocopy) =>
       IF outDir # "."
       THEN /\ Dests(cpCalls) = { DestOf(path) : path \in conv.media }
            /\ Cardinality(cpCalls) = Cardinality(conv.media)
       ELSE cpCalls = {}
  /\ cpCalls # {} => (outDir # "." /\ fileIdx \in written)
  /\ \A c \in cpCalls :
       \E path \in conv.media : c.dst = DestOf(path) /\ c.src = Trim(path)
C18_CopyStep ==
  /\ (cpCalls' # cpCalls /\ cpCalls' # {}) =>
       /\ pc = "copying"
       /\ Cardinality(cpCalls') = Cardinality(cpCalls) + 1
       /\ Cardinality(toCopy') = Cardinality(toCopy) - 1
       /\ failure' = "copy" => pc' = "exit1"
  /\ failure = "copy" => UNCHANGED vars
C18_CopiedOnce == []C18_CopyState /\ [][C18_CopyStep]_vars

C18_Witness ==
  /\ pc = "exit1" /\ failure = "copy" /\ ~nocopy /\ outDir = "out"
  /\ Cardinality(conv.media) = 2 /\ Cardinality(cpCalls) = 1
  /\ toCopy # {}

\* a comment line has been before the current one
AfterComment == \E i \in 1..Len(kinds) : kinds[i] = "comment"

\* C19: the text convert emits for a comment line, after the closing fence of
\* an open code block, lies outside the fences: no fence is open before or
\* after any token of it; the text emitted for a non-empty line of code that
\* comes after a comment line lies inside a fence: one fence is open before
\* and after every token of it; and when convert has returned, every fence
\* that was opened has been closed.
C19_CommentStep ==
  \A line \in LineSet :
    (Stepped(line, "comment") /\ ~conv'.err) =>
      \A k \in (Len(conv.out) + Len(FenceBefore))..Len(conv'.out) :
        FenceDepth(conv'.out, k) = 0
C19_CodeStep ==
  \A line \in LineSet :
    (Stepped(line, "code") /\ line # EmptyLine /\ AfterComment) =>
      \A k \in (Len(conv'.out) - Len(line) - 1)..Len(conv'.out) :
        FenceDepth(conv'.out, k) = 1
C19_AllClosed ==
  Returned => FenceDepth(conv.out, Len(conv.out)) = 0
C19_CommentsOutsideFences ==
  []C19_AllClosed /\ [][C19_CommentStep /\ C19_CodeStep]_vars

C19_Witness ==
  /\ InLoop /\ kinds = <<"comment", "code", "comment">>
  /\ in[2] = CodeLine /\ in[3] = HypeLine /\ ~conv.err
  /\ OpenCount(conv.out) = 1 /\ CloseCount(conv.out) = 1

\* the steps main can take one after the other, as pairs of where it is
StepOrder ==
  { <<"main", "read">>, <<"main", "exit0">>,
    <<"read", "convert">>, <<"read", "exit1">>,
    <<"convert", "mkdir">>, <<"convert", "exit1">>,
    <<"mkdir", "write">>, <<"mkdir", "exit1">>,
    <<"write", "copy">>, <<"write", "exit1">>,
    <<"copy", "copying">>, <<"copy", "main">>,
    <<"copying", "main">>, <<"copying", "exit1">> }

\* C20: for each file main reads, converts, creates the output directory,
\* writes the Markdown and copies the media, in this order: each step is taken
\* only from the one before it, the directory is created only in the mkdir
\* step, the file written only in the write step and cp run only in the copy
\* step.  When convert has failed for a file, it has returned no text and no
\* media set, and for that file os.MkdirAll has not been called, the Markdown
\* has not been written and cp has not been run.
C20_OrderStep ==
  /\ pc' # pc => <<pc, pc'>> \in StepOrder
  /\ fileIdx' # fileIdx => pc = "main"
  /\ in' # in => pc \in {"main", "convert", "write"}
  /\ mkdirCalls' # mkdirCalls => (pc = "mkdir" /\ mkdirCalls' = mkdirCalls \cup {fileIdx})
  /\ written' # written => (pc = "write" /\ written' = written \cup {fileIdx})
  /\ (cpCalls' # cpCalls /\ cpCalls' # {}) => pc = "copying"
C20_ConvertFailed ==
  failure = "convert" =>
     /\ conv.err /\ conv.out = <<>> /\ conv.media = {}
     /\ fileIdx \notin mkdirCalls /\ fileIdx \notin written /\ cpCalls = {}
     /\ pc = "exit1"
C20_Done ==
  /\ fileIdx \in written => (outDir # "." => fileIdx \in mkdirCalls)
  /\ cpCalls # {} => fileIdx \in written
C20_StepsInOrder ==
  [](C20_ConvertFailed /\ C20_Done) /\ [][C20_OrderStep]_vars

C20_Witness ==
  /\ failure = "convert" /\ fileIdx = 2 /\ written = {1} /\ mkdirCalls = {1}
  /\ Len(in) = 3 /\ in[3] = HypeLine /\ fs[HypePath] = NoFile
====
